---- MODULE Spec2Model ----
(***************************************************************************)
(* State-machine model of forecast.py: a batch script that loads a sales   *)
(* table, fits one forecast per group of every configured level, writes    *)
(* the combined table and publishes it with git.                           *)
(***************************************************************************)
EXTENDS Integers, Sequences, FiniteSets, TLC

\* ------------------------------------------------------------------ bounds
\* Largest number of rows of the input table.
MaxRows == 3

\* Months (as indices) an input row can be dated.
Dates == <<1, 2>>

\* Values of the numeric column of an input row, besides null.
Amounts == <<5>>

\* ------------------------------------------------------- values and config
\* NaN / NaT / pd.NA: the one null of every column.
NULL == -1

FORECAST_PERIOD_MONTHS == 3

FORECAST_LEVELS ==
    << [name |-> "Overall",           cols |-> << >>],
       [name |-> "By_BCode",          cols |-> <<"BCode">>],
       [name |-> "By_BCode_Product",  cols |-> <<"BCode", "ProductCode">>],
       [name |-> "By_BCode_PSR",      cols |-> <<"BCode", "PSRCode">>],
       [name |-> "By_BCode_Customer", cols |-> <<"BCode", "CustomerName">>] >>

NumLevels == Len(FORECAST_LEVELS)

\* Prophet needs at least 2 data points.
MinPoints == 2

\* ----------------------------------------------------------- sequence help
Range(s) == {s[i] : i \in 1..Len(s)}

RECURSIVE Concat(_)
Concat(ss) == IF ss = << >> THEN << >> ELSE Head(ss) \o Concat(Tail(ss))

Max(S) == CHOOSE x \in S : \A y \in S : y <= x

\* Lexicographic order on two sequences of integers.
RECURSIVE SeqLess(_, _)
SeqLess(a, b) ==
    IF b = << >> THEN FALSE
    ELSE IF a = << >> THEN TRUE
    ELSE IF Head(a) # Head(b) THEN Head(a) < Head(b)
    ELSE SeqLess(Tail(a), Tail(b))

\* The elements of S in ascending order; lt[<<x, y>>] says x comes before y.
RECURSIVE SortedSeq(_, _)
SortedSeq(S, lt) ==
    IF S = {} THEN << >>
    ELSE LET m == CHOOSE x \in S : \A y \in S \ {x} : lt[<<x, y>>]
         IN  <<m>> \o SortedSeq(S \ {m}, lt)

\* Code points of the column names, for Python's string order.
Ord ==
    [BCode        |-> <<66, 67, 111, 100, 101>>,
     ProductCode  |-> <<80, 114, 111, 100, 117, 99, 116, 67, 111, 100, 101>>,
     PSRCode      |-> <<80, 83, 82, 67, 111, 100, 101>>,
     CustomerName |-> <<67, 117, 115, 116, 111, 109, 101, 114, 78, 97, 109, 101>>]

StrLess(a, b) == SeqLess(Ord[a], Ord[b])

\* ------------------------------------------------------------- pandas help
\* df.rename(columns={'MonthStart': 'ds', 'NET_TRADE_AMOUNT_CR': 'y'})
RenameCol(c) ==
    IF c = "MonthStart" THEN "ds"
    ELSE IF c = "NET_TRADE_AMOUNT_CR" THEN "y"
    ELSE c

RenameRow(r) ==
    [c \in {RenameCol(k) : k \in DOMAIN r} |->
        r[CHOOSE k \in DOMAIN r : RenameCol(k) = c]]

\* The key columns in the order the levels first name them.
KeyColsUnsorted == <<"BCode", "ProductCode", "PSRCode", "CustomerName">>

\* sorted(list(set(itertools.chain.from_iterable(FORECAST_LEVELS.values()))))
all_key_cols_flat ==
    LET S == UNION {Range(FORECAST_LEVELS[i].cols) : i \in 1..NumLevels}
    IN  SortedSeq(S, [p \in S \X S |-> StrLess(p[1], p[2])])

\* current_df.dropna(subset=group_by_cols)
DropNa(frame, cols) ==
    SelectSeq(frame, LAMBDA r : \A c \in Range(cols) : r[c] # NULL)

KeyOf(r, cols) == [j \in 1..Len(cols) |-> r[cols[j]]]

\* The keys of current_df.groupby(group_by_cols), in the order it yields them.
GroupKeys(frame, cols) ==
    LET S == {KeyOf(frame[i], cols) : i \in 1..Len(frame)}
    IN  SortedSeq(S, [p \in S \X S |-> SeqLess(p[1], p[2])])

\* The group_df that groupby yields with group_keys.
GroupDf(frame, cols, key) ==
    SelectSeq(frame, LAMBDA r : KeyOf(r, cols) = key)

\* frame.sort_values('ds'), rows of one date kept in their order.
RECURSIVE SortByDs(_)
SortByDs(frame) ==
    IF frame = << >> THEN << >>
    ELSE LET m == CHOOSE d \in {frame[i].ds : i \in 1..Len(frame)} :
                     \A i \in 1..Len(frame) : d <= frame[i].ds
         IN  SelectSeq(frame, LAMBDA r : r.ds = m)
             \o SortByDs(SelectSeq(frame, LAMBDA r : r.ds # m))

\* group_df[['ds', 'y']].sort_values('ds')
ProphetDf(frame) == SortByDs([i \in 1..Len(frame) |->
                                 [ds |-> frame[i].ds, y |-> frame[i].y]])

\* model.make_future_dataframe(periods=FORECAST_PERIOD_MONTHS, freq='MS'):
\* the distinct dates of the history and the months after its last date.
FutureDates(pdf) ==
    LET hist == {pdf[i].ds : i \in 1..Len(pdf)}
        last == Max(hist)
        S == hist \cup ((last + 1)..(last + FORECAST_PERIOD_MONTHS))
    IN  SortedSeq(S, [p \in S \X S |-> p[1] < p[2]])

\* model.predict(future): one row per date of future.
Predict(future) ==
    [i \in 1..Len(future) |->
        [ds |-> future[i], trend |-> "trend", yhat_lower |-> "lo",
         yhat_upper |-> "hi", yhat |-> "est"]]

\* model.fit(prophet_df) raises on a history it cannot fit: fewer than 2
\* rows with a value, or all of them on one date. On any other history the
\* fit of the external model may succeed or raise.
FitRaises(pdf) ==
    LET hist == SelectSeq(pdf, LAMBDA p : p.y # NULL)
    IN  \/ Len(hist) < MinPoints
        \/ Cardinality({hist[i].ds : i \in 1..Len(hist)}) < MinPoints

\* Extend a row by a column.
WithCol(r, c, v) == [k \in DOMAIN r \cup {c} |-> IF k = c THEN v ELSE r[k]]

\* forecast['ForecastLevel'] = level_name; forecast[col_name] = group_keys[j]
RECURSIVE SetKeyCols(_, _, _)
SetKeyCols(r, cols, key) ==
    IF cols = << >> THEN r
    ELSE SetKeyCols(WithCol(r, Head(cols), Head(key)), Tail(cols), Tail(key))

\* Rows an inner merge on 'ds' makes of one forecast row.
MergeRowInner(r, pdf) ==
    LET hits == SelectSeq(pdf, LAMBDA p : p.ds = r.ds)
    IN  [i \in 1..Len(hits) |-> WithCol(r, "Actual", hits[i].y)]

\* Rows a left merge on 'ds' makes of one forecast row.
MergeRow(r, pdf) ==
    LET hits == SelectSeq(pdf, LAMBDA p : p.ds = r.ds)
    IN  IF hits = << >> THEN <<WithCol(r, "Actual", NULL)>>
        ELSE [i \in 1..Len(hits) |-> WithCol(r, "Actual", hits[i].y)]

\* forecast.merge(prophet_df.rename(columns={'y': 'Actual'}), on='ds', how='left')
MergeActuals(forecast, pdf) ==
    Concat([i \in 1..Len(forecast) |-> MergeRow(forecast[i], pdf)])

\* The frame appended to all_forecasts for one group.
Assemble(level, key, pdf) ==
    LET fc == Predict(FutureDates(pdf))
        tagged == [i \in 1..Len(fc) |->
                     SetKeyCols(WithCol(fc[i], "ForecastLevel", level.name),
                                level.cols, key)]
    IN  MergeActuals(tagged, pdf)

\* pd.concat(all_forecasts, ignore_index=True): the rows of all frames, each
\* with the union of the frames' columns, null where its frame has none.
PdConcat(frames) ==
    LET rows == Concat(frames)
        cols == UNION {DOMAIN rows[i] : i \in 1..Len(rows)}
    IN  [i \in 1..Len(rows) |->
            [c \in cols |-> IF c \in DOMAIN rows[i] THEN rows[i][c] ELSE NULL]]

\* final_df.rename(columns={'ds': 'Date', 'yhat': 'Forecast', ...})
RenameOut(c) ==
    IF c = "ds" THEN "Date"
    ELSE IF c = "yhat" THEN "Forecast"
    ELSE IF c = "yhat_lower" THEN "Forecast_Low"
    ELSE IF c = "yhat_upper" THEN "Forecast_High"
    ELSE c

\* .dt.strftime('%Y-%m-%d'): the text of a date, not the date.
StrfTime(d) == [iso |-> d]

\* One row of final_df before the column selection: renamed, the date as
\* text, every key column present.
FinalRow(r) ==
    LET renamed == [c \in {RenameOut(k) : k \in DOMAIN r} |->
                       r[CHOOSE k \in DOMAIN r : RenameOut(k) = c]]
        dated == [renamed EXCEPT !["Date"] = StrfTime(@)]
    IN  [c \in DOMAIN dated \cup Range(all_key_cols_flat) |->
            IF c \in DOMAIN dated THEN dated[c] ELSE NULL]

final_output_cols ==
    <<"Date", "ForecastLevel">> \o all_key_cols_flat
        \o <<"Actual", "Forecast", "Forecast_Low", "Forecast_High">>

\* final_df[final_output_cols] as written by to_csv: header and rows.
FinalDf(frames) ==
    LET rows == PdConcat(frames)
    IN  [header |-> final_output_cols,
         rows |-> [i \in 1..Len(rows) |->
                      [c \in Range(final_output_cols) |-> FinalRow(rows[i])[c]]]]

TooFewOfOne(frame) == Len(frame) < 1

\* len(group_df) < 2
TooFew(frame) == Len(frame) < MinPoints

NeverEmpty(frames) == FALSE

\* not all_forecasts
NoForecasts(frames) == frames = << >>

GitCaughtProcessErrorOnly(exc) == exc = "CalledProcessError"

\* except FileNotFoundError / except subprocess.CalledProcessError
GitCaught(exc) == exc \in {"FileNotFoundError", "CalledProcessError"}

\* ------------------------------------------------------------------ input
ColOrder == <<"MonthStart", "NET_TRADE_AMOUNT_CR",
              "BCode", "ProductCode", "PSRCode", "CustomerName">>

RawCols == Range(ColOrder)

\* Values a cell of each column of the input file can hold.
ColDomain ==
    [MonthStart          |-> Dates,
     NET_TRADE_AMOUNT_CR |-> <<NULL>> \o Amounts,
     BCode               |-> <<NULL, 1, 2>>,
     ProductCode         |-> <<NULL, 1>>,
     PSRCode             |-> <<1>>,
     CustomerName        |-> <<1>>]

\* Rows are numbered in mixed radix, one digit per column.
RECURSIVE Weight(_)
Weight(j) == IF j = 1 THEN 1 ELSE Weight(j - 1) * Len(ColDomain[ColOrder[j - 1]])

Digit(code, j) == (code \div Weight(j)) % Len(ColDomain[ColOrder[j]])

\* The numbers of the rows of a file that has the columns cs.
Codes(cs) ==
    {code \in 0..(Weight(Len(ColOrder) + 1) - 1) :
        \A j \in 1..Len(ColOrder) : ColOrder[j] \notin cs => Digit(code, j) = 0}

RowOfCode(code, cs) ==
    [c \in cs |->
        LET j == CHOOSE k \in 1..Len(ColOrder) : ColOrder[k] = c
        IN  ColDomain[c][Digit(code, j) + 1]]

\* The tables of n rows over the columns cs, one per multiset of rows.
Tables(cs, n) ==
    {[i \in 1..n |-> RowOfCode(t[i], cs)] :
        t \in {u \in [1..n -> Codes(cs)] : \A i \in 1..(n - 1) : u[i] <= u[i + 1]}}

MissingFile == [readable |-> FALSE, columns |-> {}, rows |-> << >>]

\* ------------------------------------------------------------------ state
VARIABLES
    csv,            \* the input file INPUT_CSV
    pc,             \* the statement the script is at
    df,             \* the loaded table: its columns and rows
    levelIdx,       \* position of the level loop in FORECAST_LEVELS
    groups,         \* keys of the groups of the level being iterated
    groupIdx,       \* position of the group loop in groups
    prophet_df,     \* the history last handed to Prophet
    all_forecasts,  \* the frames accumulated so far
    predicted,      \* per accumulated frame, the dates Prophet returned
    outputFile,     \* OUTPUT_CSV on disk
    writes,         \* number of times OUTPUT_CSV was written
    gitLog,         \* the git commands executed
    gitRaised,      \* the exception a git command raised
    error,          \* the exception the top-level handler reported
    errorLevel,     \* the level being processed when it was raised
    exitCode        \* the exit status of the process

vars == <<csv, pc, df, levelIdx, groups, groupIdx, prophet_df, all_forecasts,
          predicted, outputFile, writes, gitLog, gitRaised, error, errorLevel,
          exitCode>>

NoFrame == [columns |-> {}, rows |-> << >>]

\* What OUTPUT_CSV held, if anything, before the run.
PreRun == [header |-> << >>, rows |-> << >>]

None == "None"

Init ==
    /\ \/ csv = MissingFile
       \/ \E cs \in SUBSET RawCols, n \in 0..MaxRows :
             \E t \in Tables(cs, n) :
                csv = [readable |-> TRUE, columns |-> cs, rows |-> t]
    /\ pc = "load"
    /\ df = NoFrame
    /\ levelIdx = 0
    /\ groups = << >>
    /\ groupIdx = 0
    /\ prophet_df = << >>
    /\ all_forecasts = << >>
    /\ predicted = << >>
    /\ outputFile = PreRun
    /\ writes = 0
    /\ gitLog = << >>
    /\ gitRaised = None
    /\ error = None
    /\ errorLevel = 0
    /\ exitCode = NULL

\* ---------------------------------------------------------------- actions
loopVars == <<levelIdx, groups, groupIdx>>
fitVars == <<prophet_df, all_forecasts, predicted>>
outVars == <<outputFile, writes, gitLog, gitRaised>>

\* The last statement runs and the interpreter exits with status 0.
Finish ==
    /\ pc' = "exited"
    /\ exitCode' = 0

\* An exception reaches `except Exception`: it is printed and the script
\* goes on to its last statement.
Raise(e) ==
    /\ error' = e
    /\ errorLevel' = levelIdx
    /\ Finish

Running == UNCHANGED exitCode

NoRaise == UNCHANGED <<error, errorLevel>>

\* pd.read_csv, rename, to_datetime
LoadInput ==
    /\ pc = "load"
    /\ IF ~csv.readable
       THEN /\ Raise("FileNotFoundError")
            /\ UNCHANGED <<df, levelIdx>>
       ELSE /\ df' = [columns |-> {RenameCol(c) : c \in csv.columns},
                      rows |-> [i \in 1..Len(csv.rows) |-> RenameRow(csv.rows[i])]]
            /\ IF "MonthStart" \notin csv.columns
               THEN /\ Raise("KeyError")
                    /\ UNCHANGED levelIdx
               ELSE /\ pc' = "level"
                    /\ levelIdx' = 1
                    /\ NoRaise
                    /\ Running
    /\ UNCHANGED <<csv, groups, groupIdx, fitVars, outVars>>

\* The level loop moves to its next level, or ends.
NextLevel ==
    /\ levelIdx' = levelIdx + 1
    /\ pc' = IF levelIdx = NumLevels THEN "check" ELSE "level"
    /\ groups' = << >>
    /\ groupIdx' = 0

\* The group loop moves to its next group, or the level ends.
NextGroup ==
    IF groupIdx = Len(groups)
    THEN NextLevel
    ELSE /\ groupIdx' = groupIdx + 1
         /\ UNCHANGED <<pc, levelIdx, groups>>

\* Sort the group, fit, predict, tag, merge and append; `after` is what the
\* enclosing loop does next.
Forecast(level, key, frame, after) ==
    IF "y" \notin df.columns
    THEN /\ Raise("KeyError")
         /\ UNCHANGED <<loopVars, fitVars>>
    ELSE /\ prophet_df' = ProphetDf(frame)
         /\ \E fits \in (IF FitRaises(prophet_df') THEN {FALSE} ELSE BOOLEAN) :
               IF fits
               THEN /\ all_forecasts' =
                          Append(all_forecasts, Assemble(level, key, prophet_df'))
                    /\ predicted' = Append(predicted, FutureDates(prophet_df'))
                    /\ after
                    /\ NoRaise
                    /\ Running
               ELSE /\ Raise("FitError")
                    /\ UNCHANGED <<loopVars, all_forecasts, predicted>>

\* The 'Overall' branch of the level loop.
OverallLevel ==
    /\ pc = "level"
    /\ FORECAST_LEVELS[levelIdx].cols = << >>
    /\ IF TooFew(df.rows)
       THEN NextLevel /\ NoRaise /\ Running /\ UNCHANGED fitVars
       ELSE Forecast(FORECAST_LEVELS[levelIdx], << >>, df.rows, NextLevel)
    /\ UNCHANGED <<csv, df, outVars>>

\* The head of a grouped level: dropna, the empty check, groupby.
GroupedLevel ==
    /\ pc = "level"
    /\ FORECAST_LEVELS[levelIdx].cols # << >>
    /\ LET cols == FORECAST_LEVELS[levelIdx].cols
       IN  IF ~(Range(cols) \subseteq df.columns)
           THEN Raise("KeyError") /\ UNCHANGED loopVars
           ELSE LET current_df == DropNa(df.rows, cols)
                IN  IF current_df = << >>
                    THEN NextLevel /\ NoRaise /\ Running
                    ELSE /\ groups' = GroupKeys(current_df, cols)
                         /\ groupIdx' = 1
                         /\ pc' = "group"
                         /\ UNCHANGED levelIdx
                         /\ NoRaise
                         /\ Running
    /\ UNCHANGED <<csv, df, fitVars, outVars>>

\* One iteration of the group loop.
GroupStep ==
    /\ pc = "group"
    /\ LET level == FORECAST_LEVELS[levelIdx]
           key == groups[groupIdx]
           group_df == GroupDf(DropNa(df.rows, level.cols), level.cols, key)
       IN  IF TooFew(group_df)
           THEN NextGroup /\ NoRaise /\ Running /\ UNCHANGED fitVars
           ELSE Forecast(level, key, group_df, NextGroup)
    /\ UNCHANGED <<csv, df, outVars>>

\* if not all_forecasts: raise ValueError
CheckForecasts ==
    /\ pc = "check"
    /\ IF NoForecasts(all_forecasts)
       THEN Raise("ValueError")
       ELSE pc' = "save" /\ NoRaise /\ Running
    /\ UNCHANGED <<csv, df, loopVars, fitVars, outVars>>

\* The save step goes on to publish without having written.
SaveCsvSkipped ==
    /\ pc = "save"
    /\ pc' = "git_add"
    /\ NoRaise
    /\ Running
    /\ UNCHANGED <<csv, df, loopVars, fitVars, outVars>>

\* Combine, clean and save; the write succeeds or raises.
SaveCsv ==
    /\ pc = "save"
    /\ \E ok \in BOOLEAN :
          IF ok
          THEN /\ outputFile' = FinalDf(all_forecasts)
               /\ writes' = writes + 1
               /\ pc' = "git_add"
               /\ NoRaise
               /\ Running
          ELSE /\ Raise("OSError")
               /\ UNCHANGED <<outputFile, writes>>
    /\ UNCHANGED <<csv, df, loopVars, fitVars, gitLog, gitRaised>>

\* What subprocess.run(["git", cmd, ...], check=True) can do: return, or
\* raise. Whether git can be started at all shows at the first command.
GitOutcomes(cmd) ==
    IF cmd = "add"
    THEN {"ok", "CalledProcessError", "FileNotFoundError", "PermissionError"}
    ELSE {"ok", "CalledProcessError"}

\* One git command inside the publish try; `next` is the statement after it,
\* "end" for the end of the publish step.
GitRun(cmd, next) ==
    /\ \E out \in GitOutcomes(cmd) :
          /\ gitLog' = IF out \in {"ok", "CalledProcessError"}
                       THEN Append(gitLog, cmd) ELSE gitLog
          /\ IF out = "ok"
             THEN /\ NoRaise
                  /\ UNCHANGED gitRaised
                  /\ IF next = "end" THEN Finish ELSE pc' = next /\ Running
             ELSE /\ gitRaised' = out
                  /\ IF GitCaught(out) THEN NoRaise /\ Finish ELSE Raise(out)
    /\ UNCHANGED <<csv, df, loopVars, fitVars, outputFile, writes>>

GitAdd == pc = "git_add" /\ GitRun("add", "git_status")

\* git status --porcelain, and whether it lists OUTPUT_CSV
GitStatus ==
    /\ pc = "git_status"
    /\ \E changed \in BOOLEAN :
          GitRun("status", IF changed THEN "git_commit" ELSE "end")

GitCommit == pc = "git_commit" /\ GitRun("commit", "git_push")

GitPush == pc = "git_push" /\ GitRun("push", "end")

Next ==
    \/ LoadInput
    \/ OverallLevel
    \/ GroupedLevel
    \/ GroupStep
    \/ CheckForecasts
    \/ SaveCsv
    \/ GitAdd
    \/ GitStatus
    \/ GitCommit
    \/ GitPush

Spec == Init /\ [][Next]_vars

\* ------------------------------------------------------ claims: vocabulary
LevelNamed(name) ==
    CHOOSE l \in Range(FORECAST_LEVELS) : l.name = name

\* The records of the loaded input that carry the key values `key` in the
\* columns `cols` (all of them when cols is empty).
InputGroup(cols, key) ==
    {i \in 1..Len(df.rows) :
        \A j \in 1..Len(cols) :
            cols[j] \in df.columns /\ df.rows[i][cols[j]] = key[j]}

\* Level and key values a row of a frame or of the output is tagged with.
RowCols(r) == LevelNamed(r.ForecastLevel).cols
RowKey(r) == [j \in 1..Len(RowCols(r)) |-> r[RowCols(r)[j]]]

Written == writes > 0

\* Level i yields no group: one of its key columns is absent from the input,
\* or every row has a null in one of them.
ZeroGroups(i) ==
    LET cols == FORECAST_LEVELS[i].cols
    IN  /\ cols # << >>
        /\ \/ ~(Range(cols) \subseteq df.columns)
           \/ \A r \in Range(df.rows) : \E c \in Range(cols) : r[c] = NULL

\* -------------------------------------------------------------------- C1
\* C1: a run in which the model failed to fit for one group still iterates
\* every configured level (the failure skips that group only).
C1_FitFailureSkipsOnlyThatGroup ==
    error = "FitError" => levelIdx > NumLevels

\* -------------------------------------------------------------------- C2
\* C2: a run that ended on a reported fatal error has a non-zero exit status.
C2_FatalErrorExitsNonZero ==
    (pc = "exited" /\ error # None) => exitCode # 0

\* -------------------------------------------------------------------- C3
\* C3: when the level loop is over and no forecast was accumulated, the run
\* aborts with the no-forecast error: the output file is not written and no
\* git command is executed.
C3_NoForecastsNoOutput ==
    (levelIdx > NumLevels /\ all_forecasts = << >>) =>
        /\ pc \in {"check", "exited"}
        /\ pc = "exited" => error = "ValueError"
        /\ outputFile = PreRun
        /\ writes = 0
        /\ gitLog = << >>
        /\ gitRaised = None

C3_Witness ==
    /\ pc = "exited"
    /\ levelIdx > NumLevels
    /\ all_forecasts = << >>
    /\ Len(df.rows) > 0

\* -------------------------------------------------------------------- C4
\* C4: when git is not installed or a git command returns an error, the
\* failure is not reported as a failure of the run, the output file written
\* before stays in place and the run ends with the success status.
C4_PublishFailureNotFatal ==
    gitRaised \in {"FileNotFoundError", "CalledProcessError"} =>
        /\ error = None
        /\ writes = 1
        /\ outputFile # PreRun
        /\ pc = "exited"
        /\ exitCode = 0

C4_Witness ==
    /\ pc = "exited"
    /\ gitRaised = "FileNotFoundError"
    /\ outputFile # PreRun

\* -------------------------------------------------------------------- C5
\* C5: no error is raised while the run processes a level that yields zero
\* groups (key columns absent from the input, or null in every row).
C5_ZeroGroupLevelSkipped ==
    \A i \in 1..NumLevels :
        (error # None /\ errorLevel = i) => ~ZeroGroups(i)

\* -------------------------------------------------------------------- C6
\* C6: every accumulated frame and every row of the output belongs to a
\* group of the input that has at least 2 records, and a group of fewer
\* records is dropped before the forecaster: it is never handed a history of
\* fewer than 2 records.
C6_SmallGroupsNeverInOutput ==
    /\ prophet_df # << >> => Len(prophet_df) >= 2
    /\ \A k \in 1..Len(all_forecasts) :
          \A r \in Range(all_forecasts[k]) :
             Cardinality(InputGroup(RowCols(r), RowKey(r))) >= 2
    /\ \A r \in Range(outputFile.rows) :
          Cardinality(InputGroup(RowCols(r), RowKey(r))) >= 2

\* The output was written from an input that has a one-record group.
C6_Witness ==
    /\ Written
    /\ "BCode" \in df.columns
    /\ \E i \in 1..Len(df.rows) :
          /\ df.rows[i].BCode # NULL
          /\ Cardinality(InputGroup(<<"BCode">>, <<df.rows[i].BCode>>)) = 1

\* -------------------------------------------------------------------- C7
\* C7: the history handed to the forecaster for the 'Overall' level holds no
\* record whose value is null.
OverallFitted ==
    /\ prophet_df # << >>
    /\ \/ pc = "level" /\ levelIdx = 2
       \/ error = "FitError" /\ errorLevel = 1

C7_OverallExcludesNullValues ==
    OverallFitted => \A i \in 1..Len(prophet_df) : prophet_df[i].y # NULL

\* -------------------------------------------------------------------- C8
\* C8 as claimed: a frame has exactly one row per date the forecaster
\* returned, in which Actual is the value of a record the group has on that
\* date, and null when it has none.
C8_OneRowPerForecastDate ==
    \A k \in 1..Len(all_forecasts) :
        LET f == all_forecasts[k]
            g == InputGroup(RowCols(f[1]), RowKey(f[1]))
        IN  /\ Len(f) = Len(predicted[k])
            /\ \A i \in 1..Len(f) :
                  LET on == {n \in g : df.rows[n].ds = f[i].ds}
                  IN  /\ f[i].ds = predicted[k][i]
                      /\ IF on = {} THEN f[i].Actual = NULL
                         ELSE \E n \in on : f[i].Actual = df.rows[n].y

\* C8 as amended: for each date the forecaster returned, a frame has one row
\* per record the group has on that date, with that record's value as Actual,
\* and exactly one row with a null Actual when the group has no such record;
\* it has no row of any other date.
C8_OneRowPerRecordOnDate ==
    \A k \in 1..Len(all_forecasts) :
        LET f == all_forecasts[k]
            g == InputGroup(RowCols(f[1]), RowKey(f[1]))
        IN  /\ \A i \in 1..Len(f) : f[i].ds \in Range(predicted[k])
            /\ \A d \in Range(predicted[k]) :
                  LET on == {n \in g : df.rows[n].ds = d}
                      rows == {i \in 1..Len(f) : f[i].ds = d}
                  IN  IF on = {}
                      THEN /\ Cardinality(rows) = 1
                           /\ \A i \in rows : f[i].Actual = NULL
                      ELSE \A v \in {df.rows[n].y : n \in on}
                                    \cup {f[i].Actual : i \in rows} :
                              Cardinality({i \in rows : f[i].Actual = v})
                                = Cardinality({n \in on : df.rows[n].y = v})

\* A frame was assembled for a group that has two records on one date and
\* none on a horizon date.
C8_Witness ==
    \E k \in 1..Len(all_forecasts) :
        LET f == all_forecasts[k]
            g == InputGroup(RowCols(f[1]), RowKey(f[1]))
        IN  /\ \E m, n \in g : m # n /\ df.rows[m].ds = df.rows[n].ds
            /\ \E i \in 1..Len(f) : \A n \in g : df.rows[n].ds < f[i].ds

\* -------------------------------------------------------------------- C9
\* C9: a written output has the columns Date, ForecastLevel, the key columns
\* of all levels in sorted order, Actual, Forecast, Forecast_Low,
\* Forecast_High, and each row is null in every key column its level does
\* not group by.
C9_OutputSchema ==
    Written =>
        /\ outputFile.header =
              <<"Date", "ForecastLevel",
                "BCode", "CustomerName", "PSRCode", "ProductCode",
                "Actual", "Forecast", "Forecast_Low", "Forecast_High">>
        /\ \A r \in Range(outputFile.rows) :
              /\ DOMAIN r = Range(outputFile.header)
              /\ \A c \in {"BCode", "CustomerName", "PSRCode", "ProductCode"}
                          \ Range(RowCols(r)) : r[c] = NULL

\* The written output has rows of the ungrouped level and of a grouped one.
C9_Witness ==
    /\ Written
    /\ \E r \in Range(outputFile.rows) : r.ForecastLevel = "Overall"
    /\ \E r \in Range(outputFile.rows) : r.ForecastLevel = "By_BCode_Product"

\* ------------------------------------------------------------------- C10
\* C10: the output is written at most once and only after the level loop is
\* over, the accumulated frames only grow by appends, and a git command is
\* executed only after the write.
C10_PhaseOrder ==
    /\ [](/\ writes <= 1
          /\ Written => levelIdx > NumLevels
          /\ gitLog # << >> => Written)
    /\ [][/\ \/ all_forecasts' = all_forecasts
             \/ \E f \in {all_forecasts'[Len(all_forecasts')]} :
                   all_forecasts' = Append(all_forecasts, f)
          /\ writes' # writes =>
                /\ levelIdx > NumLevels
                /\ all_forecasts' = all_forecasts
                /\ gitLog = << >>
          /\ Written => all_forecasts' = all_forecasts
          /\ gitLog' # gitLog => Written]_vars

C10_Witness ==
    /\ pc = "exited"
    /\ Written
    /\ gitLog = <<"add", "status", "commit", "push">>

====
